---- MODULE Spec2Model ----
(***************************************************************************)
(* Model of the ModernTypewriter widget of js/typewriter.js.               *)
(*                                                                         *)
(* A string is a sequence of one-character strings.  The program state is  *)
(* the widget instance's fields, the part of the host page it touches      *)
(* (text content, class list, sr-only node, height), the window (inner     *)
(* width, resize listener) and the browser's queue of pending setTimeout   *)
(* callbacks.  Every method of the class is an operator from a state       *)
(* record to a state record, composed as the source composes the calls.    *)
(*                                                                         *)
(* Time is not counted.  The timer queue keeps the timers in the order     *)
(* they were set, each with its delay; a timer may fire unless an earlier  *)
(* set timer with a delay no longer than its own is still pending (that    *)
(* timer's deadline is not later, and the browser runs it first).          *)
(***************************************************************************)
EXTENDS Integers, Sequences, FiniteSets, TLC

VARIABLES
    words,          \* this.words: the active word list
    originalWords,  \* this.originalWords: <<>> while undefined, <<list>> once cached
    currentIndex,   \* this.currentIndex
    charIndex,      \* this.charIndex
    isDeleting,     \* this.isDeleting
    isRunning,      \* this.isRunning
    animationId,    \* this.animationId: Null or a frame handle
    resizeHandler,  \* this.resizeHandler: TRUE once the debounced handler exists
    options,        \* this.options
    textElement,    \* this.textElement is present (not null)
    cursorElement,  \* this.cursorElement is present (not null)
    textContent,    \* this.textElement.textContent: the rendered text
    classList,      \* this.element.classList
    srText,         \* the .sr-only node is a child of the element
    height,         \* this.element.style.height (min/max/height are set together)
    innerWidth,     \* window.innerWidth
    listeners,      \* the resize listener is attached to window
    timers,         \* pending setTimeout callbacks, in the order they were set
    timeout,        \* the debounce closure's variable `timeout`
    faulted,        \* a TypeError was thrown and not caught
    destroyed,      \* history: destroy() has returned
    lastOp,         \* history: the operation performed last
    resume,         \* history: progress of a stop()/start() resume of a typed word
    burst,          \* history: resize events since the last mode evaluation began a new burst
    evals,          \* history: mode evaluations since the last resize event
    parsedWords     \* history: the list parseWords returned at construction

progVars == <<words, originalWords, currentIndex, charIndex, isDeleting, isRunning,
              animationId, resizeHandler, options, textElement, cursorElement,
              textContent, classList, srText, height, innerWidth, listeners,
              timers, timeout, faulted>>

vars == <<words, originalWords, currentIndex, charIndex, isDeleting, isRunning,
          animationId, resizeHandler, options, textElement, cursorElement,
          textContent, classList, srText, height, innerWidth, listeners,
          timers, timeout, faulted, destroyed, lastOp, resume, burst, evals,
          parsedWords>>

----------------------------------------------------------------------------
(* Bounds of the model *)

\* a public start() is taken only while fewer timers than this are pending
MaxTimers == 2
\* a typing tick is taken only while charIndex is below this
MaxCharIndex == 6
\* the burst counter saturates here
MaxBurst == 2

----------------------------------------------------------------------------
(* Values *)

\* null / undefined for a handle
Null == 0
\* a handle requestAnimationFrame or setTimeout returned (any non-zero number)
Handle == 1

Min(a, b) == IF a < b THEN a ELSE b
Max(a, b) == IF a > b THEN a ELSE b

\* String.prototype.substring(start, end): both clamped to 0..length, swapped if start > end
Substring(str, start, end) ==
    LET a == Max(0, Min(start, Len(str)))
        b == Max(0, Min(end, Len(str)))
    IN  SubSeq(str, Min(a, b) + 1, Max(a, b))

\* String.prototype.split(sep) for a one-character separator
RECURSIVE Split(_, _)
Split(str, sep) ==
    IF \A i \in 1..Len(str) : str[i] # sep
    THEN <<str>>
    ELSE LET i == CHOOSE k \in 1..Len(str) :
                      str[k] = sep /\ \A j \in 1..(k - 1) : str[j] # sep
         IN  <<SubSeq(str, 1, i - 1)>> \o Split(SubSeq(str, i + 1, Len(str)), sep)

\* String.prototype.trim()
RECURSIVE Trim(_)
Trim(str) ==
    IF str = <<>> THEN str
    ELSE IF Head(str) = " " THEN Trim(Tail(str))
    ELSE IF str[Len(str)] = " " THEN Trim(SubSeq(str, 1, Len(str) - 1))
    ELSE str

NonEmptyWord(word) == Len(word) > 0

\* parseWords(dataString)
ParseWords(dataString) ==
    IF dataString = <<>> THEN <<>>
    ELSE LET parts == Split(dataString, ",")
         IN  SelectSeq([i \in 1..Len(parts) |-> Trim(parts[i])], NonEmptyWord)

\* the default options of the constructor
DefaultOptions ==
    [typingSpeed |-> 100, deletingSpeed |-> 50, pauseDuration |-> 2000,
     cursorChar |-> "|", cursorBlinkSpeed |-> 500,
     responsiveBreakpoint |-> 768, maxWordLength |-> 20]

\* { ...defaults, ...options }
MergeOptions(defaults, overrides) ==
    [k \in DOMAIN defaults \cup DOMAIN overrides |->
        IF k \in DOMAIN overrides THEN overrides[k] ELSE defaults[k]]

----------------------------------------------------------------------------
(* Inputs of the construction *)

\* element.dataset.words: absent, all blank, one word, two words
Datasets ==
    { [has |-> FALSE, words |-> <<>>],
      [has |-> TRUE,  words |-> <<" ", ",", " ">>],
      [has |-> TRUE,  words |-> <<" ", "x">>],
      [has |-> TRUE,  words |-> <<"H", "i", ",", " ", "a", ".", "b", "c", "d", ",">>] }

\* the options the caller passes: maxWordLength 1, with or without own timing
Overrides ==
    { [maxWordLength |-> 1],
      [maxWordLength |-> 1, typingSpeed |-> 50, deletingSpeed |-> 20, pauseDuration |-> 500] }

\* viewport widths on both sides of the breakpoint
Widths == {767, 768}

----------------------------------------------------------------------------
(* The state record the methods work on *)

State ==
    [words |-> words, originalWords |-> originalWords, currentIndex |-> currentIndex,
     charIndex |-> charIndex, isDeleting |-> isDeleting, isRunning |-> isRunning,
     animationId |-> animationId, resizeHandler |-> resizeHandler, options |-> options,
     textElement |-> textElement, cursorElement |-> cursorElement,
     textContent |-> textContent, classList |-> classList, srText |-> srText,
     height |-> height, innerWidth |-> innerWidth, listeners |-> listeners,
     timers |-> timers, timeout |-> timeout, faulted |-> faulted]

Becomes(s) ==
    /\ words' = s.words
    /\ originalWords' = s.originalWords
    /\ currentIndex' = s.currentIndex
    /\ charIndex' = s.charIndex
    /\ isDeleting' = s.isDeleting
    /\ isRunning' = s.isRunning
    /\ animationId' = s.animationId
    /\ resizeHandler' = s.resizeHandler
    /\ options' = s.options
    /\ textElement' = s.textElement
    /\ cursorElement' = s.cursorElement
    /\ textContent' = s.textContent
    /\ classList' = s.classList
    /\ srText' = s.srText
    /\ height' = s.height
    /\ innerWidth' = s.innerWidth
    /\ listeners' = s.listeners
    /\ timers' = s.timers
    /\ timeout' = s.timeout
    /\ faulted' = s.faulted

----------------------------------------------------------------------------
(* The browser's timers *)

(* A pending timer is [kind, delay, held].  The number setTimeout returns is   *)
(* stored in one place only, the debounce closure's variable `timeout`, and    *)
(* is used only by clearTimeout(timeout); so instead of the number a timer     *)
(* records whether `timeout` currently holds its id (held), and `timeout` is   *)
(* Null while undefined and Handle once an id was stored in it.                *)

\* setTimeout(callback, delay) whose result is discarded; kind names the callback
SetTimeout(s, kind, delay) ==
    [s EXCEPT !.timers = Append(@, [kind |-> kind, delay |-> delay, held |-> FALSE])]

NotHeld(t) == ~t.held

\* clearTimeout(timeout)
ClearTimeout(s) ==
    [s EXCEPT !.timers = SelectSeq(@, NotHeld)]

\* timeout = setTimeout(later, wait)
AssignTimeout(s, wait) ==
    [s EXCEPT !.timers = Append([i \in 1..Len(@) |-> [@[i] EXCEPT !.held = FALSE]],
                                [kind |-> "later", delay |-> wait, held |-> TRUE]),
              !.timeout = Handle]

\* the queue without its i-th timer
RemoveAt(q, i) == SubSeq(q, 1, i - 1) \o SubSeq(q, i + 1, Len(q))

\* timer i may be the next to fire
CanFire(q, i) ==
    /\ i \in 1..Len(q)
    /\ \A j \in 1..(i - 1) : q[j].delay > q[i].delay

----------------------------------------------------------------------------
(* The methods of ModernTypewriter *)

\* calculateTypingSpeed with the punctuation check ahead of the first/last check
CalculateTypingSpeedPunctFirst(s, word, ci) ==
    LET baseSpeed == s.options.typingSpeed
        prevIsPunctuation ==
            /\ ci - 1 \in 0..(Len(word) - 1)
            /\ word[ci] \in {".", ",", "!", "?", ";", ":"}
    IN  IF prevIsPunctuation THEN (baseSpeed * 15) \div 10
        ELSE IF ci = 0 \/ ci = Len(word) - 1 THEN (baseSpeed * 12) \div 10
        ELSE baseSpeed

\* calculateTypingSpeed(word, charIndex); x * 1.2 and x * 1.5 on the multiples of 10 used
CalculateTypingSpeed(s, word, ci) ==
    LET baseSpeed == s.options.typingSpeed
        prevIsPunctuation ==
            /\ ci - 1 \in 0..(Len(word) - 1)
            /\ word[ci] \in {".", ",", "!", "?", ";", ":"}
    IN  IF ci = 0 \/ ci = Len(word) - 1 THEN (baseSpeed * 12) \div 10
        ELSE IF prevIsPunctuation THEN (baseSpeed * 15) \div 10
        ELSE baseSpeed

\* the deleting branch with the index advanced without the wrap
AnimateDeletingNoWrap(s, currentWord) ==
    LET s1 == [s EXCEPT !.textContent = Substring(currentWord, 0, s.charIndex - 1),
                        !.charIndex = s.charIndex - 1]
    IN  IF s1.charIndex = 0
        THEN SetTimeout([s1 EXCEPT !.isDeleting = FALSE,
                                   !.currentIndex = s.currentIndex + 1],
                        "tick", 300)
        ELSE SetTimeout(s1, "tick", s.options.deletingSpeed)

\* the deleting branch testing for the end of the deletion before the decrement
AnimateDeletingLate(s, currentWord) ==
    LET s1 == [s EXCEPT !.textContent = Substring(currentWord, 0, s.charIndex - 1),
                        !.charIndex = s.charIndex - 1]
    IN  IF s.charIndex = 0
        THEN SetTimeout([s1 EXCEPT !.isDeleting = FALSE,
                                   !.currentIndex = (s.currentIndex + 1) % Len(s.words)],
                        "tick", 300)
        ELSE SetTimeout(s1, "tick", s.options.deletingSpeed)

\* the deleting branch of animate()
AnimateDeleting(s, currentWord) ==
    LET s1 == [s EXCEPT !.textContent = Substring(currentWord, 0, s.charIndex - 1),
                        !.charIndex = s.charIndex - 1]
    IN  IF s1.charIndex = 0
        THEN SetTimeout([s1 EXCEPT !.isDeleting = FALSE,
                                   !.currentIndex = (s.currentIndex + 1) % Len(s.words)],
                        "tick", 300)
        ELSE SetTimeout(s1, "tick", s.options.deletingSpeed)

\* the typing branch rendering one character less
AnimateTypingShort(s, currentWord) ==
    LET s1 == [s EXCEPT !.textContent = Substring(currentWord, 0, s.charIndex),
                        !.charIndex = s.charIndex + 1]
    IN  IF s1.charIndex = Len(currentWord)
        THEN SetTimeout([s1 EXCEPT !.isDeleting = TRUE], "tick", s.options.pauseDuration)
        ELSE SetTimeout(s1, "tick", CalculateTypingSpeed(s1, currentWord, s1.charIndex))

\* the typing branch of animate()
AnimateTyping(s, currentWord) ==
    LET s1 == [s EXCEPT !.textContent = Substring(currentWord, 0, s.charIndex + 1),
                        !.charIndex = s.charIndex + 1]
    IN  IF s1.charIndex = Len(currentWord)
        THEN SetTimeout([s1 EXCEPT !.isDeleting = TRUE], "tick", s.options.pauseDuration)
        ELSE SetTimeout(s1, "tick", CalculateTypingSpeed(s1, currentWord, s1.charIndex))

\* animate() without its isRunning guard
AnimateUnguarded(s) ==
    IF s.currentIndex + 1 \notin 1..Len(s.words) \/ ~s.textElement
    THEN [s EXCEPT !.faulted = TRUE]
    ELSE LET currentWord == s.words[s.currentIndex + 1]
             s1 == IF s.isDeleting THEN AnimateDeleting(s, currentWord)
                                   ELSE AnimateTyping(s, currentWord)
         IN  [s1 EXCEPT !.animationId = Handle]

\* animate(): one tick.  words[currentIndex] is undefined for an empty list and
\* textElement is null on an instance whose construction was aborted: either way the
\* render statement throws a TypeError before anything is assigned.
Animate(s) ==
    IF ~s.isRunning THEN s
    ELSE IF s.currentIndex + 1 \notin 1..Len(s.words) \/ ~s.textElement
    THEN [s EXCEPT !.faulted = TRUE]
    ELSE LET currentWord == s.words[s.currentIndex + 1]
             s1 == IF s.isDeleting THEN AnimateDeleting(s, currentWord)
                                   ELSE AnimateTyping(s, currentWord)
         IN  [s1 EXCEPT !.animationId = Handle]

\* start() that begins the word again
StartFromZero(s) ==
    IF s.isRunning THEN s
    ELSE Animate([s EXCEPT !.isRunning = TRUE,
                           !.classList = @ \cup {"typewriter-active"},
                           !.charIndex = 0])

\* start() without its isRunning guard
StartUnguarded(s) ==
    Animate([s EXCEPT !.isRunning = TRUE,
                      !.classList = @ \cup {"typewriter-active"}])

\* start()
Start(s) ==
    IF s.isRunning THEN s
    ELSE Animate([s EXCEPT !.isRunning = TRUE,
                           !.classList = @ \cup {"typewriter-active"}])

\* stop()
Stop(s) ==
    [s EXCEPT !.isRunning = FALSE,
              !.classList = @ \ {"typewriter-active"},
              !.animationId = Null]

\* truncateLongWords() caching the active list on every call
TruncateAlwaysCaches(s) ==
    LET s1 == [s EXCEPT !.originalWords = <<s.words>>]
    IN  [s1 EXCEPT !.words =
            [i \in 1..Len(s.words) |->
                IF Len(s.words[i]) > s.options.maxWordLength
                THEN Substring(s.words[i], 0, s.options.maxWordLength) \o <<".", ".", ".">>
                ELSE s.words[i]]]

\* truncateLongWords()
TruncateLongWords(s) ==
    LET s1 == IF s.originalWords = <<>> THEN [s EXCEPT !.originalWords = <<s.words>>] ELSE s
    IN  [s1 EXCEPT !.words =
            [i \in 1..Len(s.words) |->
                IF Len(s.words[i]) > s.options.maxWordLength
                THEN Substring(s.words[i], 0, s.options.maxWordLength) \o <<".", ".", ".">>
                ELSE s.words[i]]]

\* restoreOriginalWords()
RestoreOriginalWords(s) ==
    IF s.originalWords # <<>> THEN [s EXCEPT !.words = s.originalWords[1]] ELSE s

\* adjustTimingForMobile()
AdjustTimingForMobile(s) ==
    [s EXCEPT !.options.typingSpeed = 80,
              !.options.deletingSpeed = 40,
              !.options.pauseDuration = 1500]

\* adjustTimingForDesktop()
AdjustTimingForDesktop(s) ==
    [s EXCEPT !.options.typingSpeed = 100,
              !.options.deletingSpeed = 50,
              !.options.pauseDuration = 2000]

\* calculateContainerHeight()
CalculateContainerHeight(s) == [s EXCEPT !.height = "1.5em"]

\* handleResponsive() taking the breakpoint width itself for mobile
HandleResponsiveInclusive(s) ==
    LET isMobile == s.innerWidth <= s.options.responsiveBreakpoint
    IN  CalculateContainerHeight(
            IF isMobile THEN AdjustTimingForMobile(TruncateLongWords(s))
                        ELSE AdjustTimingForDesktop(RestoreOriginalWords(s)))

\* handleResponsive() that also begins the current word again
HandleResponsiveResets(s) ==
    LET isMobile == s.innerWidth < s.options.responsiveBreakpoint
        r == CalculateContainerHeight(
                IF isMobile THEN AdjustTimingForMobile(TruncateLongWords(s))
                            ELSE AdjustTimingForDesktop(RestoreOriginalWords(s)))
    IN  [r EXCEPT !.charIndex = 0, !.isDeleting = FALSE]

\* handleResponsive(): one mode evaluation
HandleResponsive(s) ==
    LET isMobile == s.innerWidth < s.options.responsiveBreakpoint
    IN  CalculateContainerHeight(
            IF isMobile THEN AdjustTimingForMobile(TruncateLongWords(s))
                        ELSE AdjustTimingForDesktop(RestoreOriginalWords(s)))

\* the debounced function without the clearTimeout before re-arming
ExecutedFunctionNoClear(s, wait) == AssignTimeout(s, wait)

\* the function debounce() returns, called for a resize event
ExecutedFunction(s, wait) == AssignTimeout(ClearTimeout(s), wait)

\* the callback `later` of debounce(), with func = handleResponsive
Later(s) == HandleResponsive(ClearTimeout(s))

\* setupAccessibility()
SetupAccessibility(s) == [s EXCEPT !.srText = TRUE]

\* setupResponsive()
SetupResponsive(s) ==
    HandleResponsive([s EXCEPT !.resizeHandler = TRUE, !.listeners = TRUE])

\* init()
InitWidget(s) ==
    SetTimeout(SetupResponsive(CalculateContainerHeight(SetupAccessibility(s))),
               "start", 300)

\* destroy() leaving the resize listener attached
DestroyKeepsListener(s) ==
    LET s1 == Stop(s)
    IN  [s1 EXCEPT !.srText = FALSE,
                   !.classList = @ \ {"typewriter-active", "typewriter-initialized"}]

\* destroy()
Destroy(s) ==
    LET s1 == Stop(s)
        s2 == IF s1.resizeHandler THEN [s1 EXCEPT !.listeners = FALSE] ELSE s1
    IN  [s2 EXCEPT !.srText = FALSE,
                   !.classList = @ \ {"typewriter-active", "typewriter-initialized"}]

\* element.dataset.words || ''
DataString(dataset) == IF dataset.has THEN dataset.words ELSE <<>>

\* new ModernTypewriter(element, options), then the bootstrap's mark on the element
Constructor(dataset, overrides, width, hasText, hasCursor) ==
    LET s0 == [words |-> ParseWords(DataString(dataset)),
               originalWords |-> <<>>, currentIndex |-> 0, charIndex |-> 0,
               isDeleting |-> FALSE, isRunning |-> FALSE, animationId |-> Null,
               resizeHandler |-> FALSE,
               options |-> MergeOptions(DefaultOptions, overrides),
               textElement |-> hasText, cursorElement |-> hasCursor,
               textContent |-> <<>>, classList |-> {}, srText |-> FALSE,
               height |-> "", innerWidth |-> width, listeners |-> FALSE,
               timers |-> <<>>, timeout |-> Null, faulted |-> FALSE]
        s1 == IF ~hasText \/ ~hasCursor THEN s0 ELSE InitWidget(s0)
    IN  [s1 EXCEPT !.classList = @ \cup {"typewriter-initialized"}]

----------------------------------------------------------------------------
(* The state after construction *)

InitFrom(s) ==
    /\ words = s.words
    /\ originalWords = s.originalWords
    /\ currentIndex = s.currentIndex
    /\ charIndex = s.charIndex
    /\ isDeleting = s.isDeleting
    /\ isRunning = s.isRunning
    /\ animationId = s.animationId
    /\ resizeHandler = s.resizeHandler
    /\ options = s.options
    /\ textElement = s.textElement
    /\ cursorElement = s.cursorElement
    /\ textContent = s.textContent
    /\ classList = s.classList
    /\ srText = s.srText
    /\ height = s.height
    /\ innerWidth = s.innerWidth
    /\ listeners = s.listeners
    /\ timers = s.timers
    /\ timeout = s.timeout
    /\ faulted = s.faulted

Init ==
    /\ \E dataset \in Datasets, overrides \in Overrides, width \in Widths,
          hasText \in BOOLEAN, hasCursor \in BOOLEAN :
            /\ InitFrom(Constructor(dataset, overrides, width, hasText, hasCursor))
            /\ parsedWords = ParseWords(DataString(dataset))
    /\ destroyed = FALSE
    /\ lastOp = [op |-> "construct", wasRunning |-> FALSE]
    /\ resume = "none"
    /\ burst = 0
    /\ evals = 0

----------------------------------------------------------------------------
(* Operations *)

\* the word the next tick works on, <<>> when there is none
CurrentWord(s) ==
    IF s.currentIndex + 1 \in 1..Len(s.words) THEN s.words[s.currentIndex + 1] ELSE <<>>

\* a tick is modelled only while charIndex is within the model's range
InRange(s) ==
    \/ ~s.isRunning
    \/ IF s.isDeleting THEN s.charIndex > -MaxCharIndex ELSE s.charIndex < MaxCharIndex

\* the widget is typing a word and has not finished it
TypingMidWord(s) ==
    /\ s.textElement
    /\ s.words # <<>>
    /\ ~s.isDeleting
    /\ s.charIndex >= 0
    /\ s.charIndex < Len(CurrentWord(s))

\* the resume history after a call of start()
ResumeAfterStart(s, t) ==
    IF s.isRunning THEN resume
    ELSE IF resume = "stopped" THEN (IF t.isDeleting THEN "completed" ELSE "resumed")
    ELSE "none"

\* a caller calls start()
CallStart ==
    /\ ~destroyed
    /\ isRunning \/ Len(timers) < MaxTimers
    /\ InRange([State EXCEPT !.isRunning = TRUE])
    /\ Becomes(Start(State))
    /\ lastOp' = [op |-> "start", wasRunning |-> isRunning]
    /\ resume' = ResumeAfterStart(State, Start(State))
    /\ UNCHANGED <<destroyed, burst, evals, parsedWords>>

\* a caller calls stop()
CallStop ==
    /\ ~destroyed
    /\ Becomes(Stop(State))
    /\ lastOp' = [op |-> "stop", wasRunning |-> isRunning]
    /\ resume' = IF isRunning /\ TypingMidWord(State) THEN "stopped" ELSE "none"
    /\ UNCHANGED <<destroyed, burst, evals, parsedWords>>

\* a caller calls destroy()
CallDestroy ==
    /\ ~destroyed
    /\ Becomes(Destroy(State))
    /\ destroyed' = TRUE
    /\ lastOp' = [op |-> "destroy", wasRunning |-> isRunning]
    /\ resume' = "none"
    /\ UNCHANGED <<burst, evals, parsedWords>>

\* the window is resized to width w and dispatches a resize event
ResizeEvent(w) ==
    /\ LET s == [State EXCEPT !.innerWidth = w]
       IN  Becomes(IF listeners THEN ExecutedFunction(s, 250) ELSE s)
    /\ lastOp' = [op |-> "resize", wasRunning |-> isRunning]
    /\ resume' = IF resume = "stopped" THEN "none" ELSE resume
    /\ burst' = IF ~listeners THEN burst
                ELSE IF burst = 0 \/ evals > 0 THEN 1
                ELSE Min(burst + 1, MaxBurst)
    /\ evals' = IF listeners THEN 0 ELSE evals
    /\ UNCHANGED <<destroyed, parsedWords>>

\* the constructor's delayed start fires: () => this.start()
FireStartTimer(i) ==
    /\ CanFire(timers, i)
    /\ timers[i].kind = "start"
    /\ InRange([State EXCEPT !.isRunning = TRUE])
    /\ LET s == [State EXCEPT !.timers = RemoveAt(timers, i)]
       IN  /\ Becomes(Start(s))
           /\ resume' = ResumeAfterStart(s, Start(s))
    /\ lastOp' = [op |-> "startTimer", wasRunning |-> isRunning]
    /\ UNCHANGED <<destroyed, burst, evals, parsedWords>>

\* a delayed tick fires: () => this.animate()
FireTick(i) ==
    /\ CanFire(timers, i)
    /\ timers[i].kind = "tick"
    /\ InRange(State)
    /\ LET s == [State EXCEPT !.timers = RemoveAt(timers, i)]
       IN  /\ Becomes(Animate(s))
           /\ resume' = IF resume = "resumed" /\ isRunning
                        THEN (IF Animate(s).isDeleting THEN "completed" ELSE "resumed")
                        ELSE "none"
    /\ lastOp' = [op |-> "tick", wasRunning |-> isRunning]
    /\ UNCHANGED <<destroyed, burst, evals, parsedWords>>

\* the debounce timer fires: later()
FireLater(i) ==
    /\ CanFire(timers, i)
    /\ timers[i].kind = "later"
    /\ Becomes(Later([State EXCEPT !.timers = RemoveAt(timers, i)]))
    /\ lastOp' = [op |-> "later", wasRunning |-> isRunning]
    /\ resume' = "none"
    /\ evals' = Min(evals + 1, 2)
    /\ UNCHANGED <<destroyed, burst, parsedWords>>

Next ==
    \/ CallStart
    \/ CallStop
    \/ CallDestroy
    \/ \E w \in Widths : ResizeEvent(w)
    \/ \E i \in 1..Len(timers) : FireStartTimer(i)
    \/ \E i \in 1..Len(timers) : FireTick(i)
    \/ \E i \in 1..Len(timers) : FireLater(i)

Spec == Init /\ [][Next]_vars

----------------------------------------------------------------------------
(* Step predicates used by the properties *)

\* this step is the firing of a delayed tick
TickStep == lastOp'.op = "tick"

\* this step ran the body of animate() past its guard and rendered
AnimateRan ==
    /\ textElement
    /\ currentIndex + 1 \in 1..Len(words)
    /\ \/ lastOp'.op = "tick" /\ isRunning
       \/ lastOp'.op \in {"start", "startTimer"} /\ ~isRunning

\* this step took one timer out of the queue and set none
OneTimerConsumed == \E i \in 1..Len(timers) : timers' = RemoveAt(timers, i)

----------------------------------------------------------------------------
(* Properties *)

\* C1: stop() followed immediately by start() on a widget that was running and
\* typing word w at charIndex k < Len(w) renders the prefix of w of length k+1,
\* and every tick after it, until the word is complete, renders the prefix one
\* character longer than the text rendered before it (none skipped, none repeated).
C1_StopStartResumes ==
    [][ /\ (resume = "stopped" /\ resume' \in {"resumed", "completed"}) =>
              /\ textContent' = Substring(CurrentWord(State), 0, charIndex + 1)
              /\ Len(textContent') = charIndex + 1
              /\ charIndex' = charIndex + 1
              /\ currentIndex' = currentIndex /\ words' = words
        /\ (resume = "resumed" /\ TickStep) =>
              /\ textContent' = Substring(CurrentWord(State), 0, Len(textContent) + 1)
              /\ Len(textContent') = Len(textContent) + 1
              /\ currentIndex' = currentIndex /\ words' = words
              /\ resume' = "completed" <=> textContent' = CurrentWord(State)
      ]_vars

\* C1 witness: a word resumed by stop()/start() mid-word was then completed by a tick
C1_Witness ==
    /\ textElement /\ cursorElement
    /\ resume = "completed"
    /\ lastOp.op = "tick"
    /\ Len(CurrentWord(State)) >= 3
    /\ textContent = CurrentWord(State)

\* C2: while isRunning is false a firing tick changes neither the rendered text nor
\* charIndex, currentIndex, isDeleting, and schedules nothing; stop() changes
\* nothing of the animation state except the running flag.
C2_HaltedWhileNotRunning ==
    [][ /\ (TickStep /\ ~isRunning) =>
              /\ UNCHANGED <<textContent, charIndex, currentIndex, isDeleting, isRunning>>
              /\ OneTimerConsumed
        /\ lastOp'.op = "stop" =>
              /\ UNCHANGED <<textContent, charIndex, currentIndex, isDeleting, words, timers>>
              /\ ~isRunning'
      ]_vars

\* C2 witness: a tick scheduled while running fired after stop() and changed nothing
C2_Witness ==
    /\ textElement /\ cursorElement
    /\ lastOp = [op |-> "tick", wasRunning |-> FALSE]
    /\ ~isRunning
    /\ charIndex > 0
    /\ ~destroyed

\* C3: start() on a running widget changes no state, and a stop() that directly
\* follows a stop() leaves the state as the first one left it.
C3_StartStopIdempotent ==
    [][ /\ (lastOp'.op = "start" /\ isRunning) => UNCHANGED progVars
        /\ (lastOp.op = "stop" /\ lastOp'.op = "stop") => UNCHANGED progVars
      ]_vars

\* C3 witness: start() was called on a widget that was running with a tick pending
C3_Witness ==
    /\ textElement /\ cursorElement
    /\ lastOp = [op |-> "start", wasRunning |-> TRUE]
    /\ isRunning
    /\ \E i \in 1..Len(timers) : timers[i].kind = "tick"

\* C4: once destroy() has returned, no timer set before it (a tick or the
\* constructor's delayed start) changes the rendered text, charIndex, currentIndex
\* or isDeleting, and isRunning stays false.  (Stated for a widget with its
\* sub-elements and a non-empty word list, where a tick renders.)
C4_NoTickAfterDestroy ==
    [][ (/\ destroyed /\ textElement /\ words # <<>>
         /\ lastOp'.op \in {"tick", "startTimer"}) =>
              /\ UNCHANGED <<textContent, charIndex, currentIndex, isDeleting>>
              /\ ~isRunning'
      ]_vars

\* C5: after destroy() no resize listener is attached: a resize event sets no
\* debounce timer and evaluates no mode.
C5_NoListenerAfterDestroy ==
    /\ [](destroyed => ~listeners)
    /\ [][ (destroyed /\ lastOp'.op = "resize") =>
              UNCHANGED <<timers, timeout, words, originalWords, options, height>>
         ]_vars

\* C5 witness: a widget that had attached its listener was destroyed and then resized
C5_Witness ==
    /\ destroyed
    /\ resizeHandler
    /\ lastOp.op = "resize"

\* C6: the tick that completes the deletion of the word at index i sets
\* currentIndex to (i+1) mod |W|, no other tick changes currentIndex, and a
\* typing tick renders a prefix of the word at currentIndex.
C6_CyclicAdvance ==
    /\ [](words # <<>> => currentIndex \in 0..(Len(words) - 1))
    /\ [][ AnimateRan =>
              /\ (isDeleting /\ charIndex' = 0) =>
                    /\ currentIndex' = (currentIndex + 1) % Len(words)
                    /\ ~isDeleting'
              /\ ~(isDeleting /\ charIndex' = 0) => currentIndex' = currentIndex
              /\ ~isDeleting =>
                    textContent' = Substring(words[currentIndex + 1], 0, charIndex + 1)
         ]_vars

\* C6 witness: in a list of two words the deletion of the last word has just
\* completed and the index is back at the first word
C6_Witness ==
    /\ textElement /\ cursorElement
    /\ Len(words) = 2
    /\ lastOp = [op |-> "tick", wasRunning |-> TRUE]
    /\ currentIndex = 0 /\ charIndex = 0 /\ ~isDeleting
    /\ textContent = <<>>

\* C7: the tick that ends a typing run (it sets isDeleting) renders the full
\* current word, and the tick that ends a deleting run (it clears isDeleting)
\* renders the empty string.
C7_RunEndsRendered ==
    [][ AnimateRan =>
              /\ (~isDeleting /\ isDeleting') => textContent' = words[currentIndex + 1]
              /\ (isDeleting /\ ~isDeleting') => textContent' = <<>>
      ]_vars

\* C7 witness: a typing run of a word of several characters has just ended
C7_Witness ==
    /\ textElement /\ cursorElement
    /\ lastOp = [op |-> "tick", wasRunning |-> TRUE]
    /\ isDeleting
    /\ charIndex = Len(CurrentWord(State))
    /\ Len(CurrentWord(State)) >= 2
    /\ textContent = CurrentWord(State)

\* the pending debounce timers
LaterTimers == { i \in 1..Len(timers) : timers[i].kind = "later" }

\* the truncated variant of a word list, as the specification describes it
TruncatedOnce(list, maxWordLength) ==
    [i \in 1..Len(list) |->
        IF Len(list[i]) <= maxWordLength THEN list[i]
        ELSE SubSeq(list[i], 1, maxWordLength) \o <<".", ".", ".">>]

\* the effect of one mode evaluation on the word list, the cache, the timing and the height
EvaluationOf(s) ==
    LET r == HandleResponsive(s)
    IN  <<r.words, r.originalWords, r.options, r.height>>

\* C8: the resize handler is trailing-edge debounced at 250: a resize event
\* evaluates nothing and leaves exactly one debounce timer pending, set by that
\* event with delay 250; the firing of that timer runs one mode evaluation with
\* the current viewport width and leaves no debounce timer pending; so a burst
\* of events without a firing in between yields exactly one evaluation.
C8_DebouncedResize ==
    /\ [](/\ Cardinality(LaterTimers) <= 1
          /\ \A i \in LaterTimers : timers[i].held /\ timers[i].delay = 250
          /\ evals <= 1)
    /\ [][ /\ (lastOp'.op = "resize" /\ listeners) =>
                 /\ UNCHANGED <<words, originalWords, options, height>>
                 /\ Cardinality(LaterTimers') = 1
                 /\ timers'[Len(timers')] = [kind |-> "later", delay |-> 250, held |-> TRUE]
                 /\ evals' = 0
           /\ lastOp'.op = "later" =>
                 /\ innerWidth' = innerWidth
                 /\ <<words', originalWords', options', height'>> = EvaluationOf(State)
                 /\ LaterTimers' = {}
         ]_vars

\* C8 witness: a burst of at least two resize events was followed by its one evaluation
C8_Witness ==
    /\ burst >= 2
    /\ evals = 1
    /\ lastOp.op = "later"
    /\ LaterTimers = {}

\* C9: after every mode evaluation the active list is, in mobile mode, the parsed
\* list with each word longer than maxWordLength cut to its first maxWordLength
\* characters plus "..." (however many mobile evaluations came before), and in
\* desktop mode exactly the parsed list; the cache, once set, is the parsed list.
C9_TruncateOnceAndRestore ==
    /\ [](/\ originalWords # <<>> => originalWords[1] = parsedWords
          /\ words \in {parsedWords, TruncatedOnce(parsedWords, options.maxWordLength)})
    /\ [][ lastOp'.op = "later" =>
              words' = IF innerWidth' < options'.responsiveBreakpoint
                       THEN TruncatedOnce(parsedWords, options'.maxWordLength)
                       ELSE parsedWords
         ]_vars

\* C9 witness: a desktop evaluation has restored the parsed list while the text on
\* screen is still a prefix typed from the truncated variant of the current word
C9_Witness ==
    /\ lastOp.op = "later"
    /\ innerWidth >= options.responsiveBreakpoint
    /\ originalWords # <<>>
    /\ words = parsedWords
    /\ words # TruncatedOnce(parsedWords, options.maxWordLength)
    /\ Len(textContent) > options.maxWordLength
    /\ textContent = Substring(TruncatedOnce(parsedWords, options.maxWordLength)[currentIndex + 1],
                               0, Len(textContent))
    /\ textContent # Substring(words[currentIndex + 1], 0, Len(textContent))

\* C10: with an empty word list on a widget that has its sub-elements, a tick
\* renders nothing, leaves the animation state alone, schedules no tick and
\* raises no fault.
C10_EmptyListNoOp ==
    (words = <<>> /\ textElement /\ cursorElement) =>
        /\ ~faulted
        /\ textContent = <<>>
        /\ charIndex = 0 /\ currentIndex = 0 /\ ~isDeleting
        /\ \A i \in 1..Len(timers) : timers[i].kind # "tick"

\* C11: a widget constructed without its text or cursor sub-element is inert: it
\* has no resize listener and no pending timer, and no public operation on it
\* starts the animation, schedules a tick or faults.  (Stated for a non-empty
\* word list, so that a fault is the missing element's.)
C11_InertInstance ==
    (words # <<>> /\ (~textElement \/ ~cursorElement)) =>
        /\ ~listeners /\ ~resizeHandler
        /\ timers = <<>>
        /\ ~isRunning
        /\ ~faulted
        /\ textContent = <<>>

\* words on which the typing-speed rule is evaluated directly
SpeedWords ==
    { <<"H", "i", ".">>, <<"a", ".", "b">>, <<"a", ",", "b", "c">>, <<"x">>, <<"a", "!">> }

\* the delay the rule of the specification gives for position i (from 0) of a word
RuleSpeed(typingSpeed, word, i) ==
    IF i = 0 \/ i = Len(word) - 1 THEN (typingSpeed * 12) \div 10
    ELSE IF i >= 1 /\ i <= Len(word) /\ word[i] \in {".", ",", "!", "?", ";", ":"}
         THEN (typingSpeed * 15) \div 10
    ELSE typingSpeed

\* C12: calculateTypingSpeed(word, i) is typingSpeed x 1.2 at the first and the
\* last position, else typingSpeed x 1.5 after one of . , ! ? ; : and else
\* typingSpeed; "Hi." gives x1.2, base, x1.2; and the delay of the tick a typing
\* step schedules inside a word is this value for the new charIndex.
C12_TypingSpeedRule ==
    /\ [](/\ \A word \in SpeedWords : \A i \in 0..(Len(word) - 1) :
                CalculateTypingSpeed(State, word, i) = RuleSpeed(options.typingSpeed, word, i)
          /\ LET base == options.typingSpeed
                 hi == <<"H", "i", ".">>
             IN  <<CalculateTypingSpeed(State, hi, 0), CalculateTypingSpeed(State, hi, 1),
                   CalculateTypingSpeed(State, hi, 2)>>
                 = <<(base * 12) \div 10, base, (base * 12) \div 10>>)
    /\ [][ (AnimateRan /\ ~isDeleting /\ ~isDeleting') =>
              timers'[Len(timers')] =
                  [kind |-> "tick", held |-> FALSE,
                   delay |-> RuleSpeed(options.typingSpeed, words[currentIndex + 1], charIndex')]
         ]_vars

\* C12 witness: a tick typed a character that follows a punctuation mark inside the
\* word and scheduled the next tick at typingSpeed x 1.5
C12_Witness ==
    /\ textElement /\ cursorElement
    /\ lastOp = [op |-> "tick", wasRunning |-> TRUE]
    /\ isRunning /\ ~isDeleting
    /\ charIndex \in 1..(Len(CurrentWord(State)) - 2)
    /\ CurrentWord(State)[charIndex] = "."
    /\ timers # <<>>
    /\ timers[Len(timers)].delay = (options.typingSpeed * 15) \div 10

\* the pending delayed ticks
TickTimers == { i \in 1..Len(timers) : timers[i].kind = "tick" }

\* the widget was constructed with both sub-elements and a non-empty word list
Animated == textElement /\ cursorElement /\ words # <<>>

\* C13: at most one delayed tick is pending at any time (stated for a widget
\* constructed with its sub-elements and a non-empty word list).
C13_OneTickInFlight == Animated => Cardinality(TickTimers) <= 1

\* C14: with a non-empty word list, 0 <= charIndex <= length of the current word
\* of the active list, also right after a mode evaluation has swapped the list
\* (stated for a widget constructed with its sub-elements).
C14_CharIndexInWord ==
    Animated => (charIndex >= 0 /\ charIndex <= Len(CurrentWord(State)))

\* the three timing values of the options
Timing(o) == <<o.typingSpeed, o.deletingSpeed, o.pauseDuration>>

\* C15: right after every mode evaluation, the construction's included, a width
\* below responsiveBreakpoint has the truncated list active with timing
\* (80, 40, 1500), and any other width the parsed list with (100, 50, 2000).
C15_ModeMatchesViewport ==
    (resizeHandler /\ lastOp.op \in {"construct", "later"}) =>
        IF innerWidth < options.responsiveBreakpoint
        THEN /\ words = TruncatedOnce(parsedWords, options.maxWordLength)
             /\ Timing(options) = <<80, 40, 1500>>
        ELSE /\ words = parsedWords
             /\ Timing(options) = <<100, 50, 2000>>

\* C15 witness: a resize from the breakpoint width to one below it was evaluated
\* and the truncated list, different from the parsed one, is active
C15_Witness ==
    /\ resizeHandler
    /\ lastOp.op = "later"
    /\ innerWidth = options.responsiveBreakpoint - 1
    /\ burst >= 1
    /\ words # parsedWords
    /\ Timing(options) = <<80, 40, 1500>>
    /\ originalWords = <<parsedWords>>

\* the timers of a queue other than the debounce timers, in order
NotLater(t) == t.kind # "later"
OtherTimers(q) == SelectSeq(q, NotLater)

\* the options without the three timing values
NonTiming(o) ==
    <<o.cursorChar, o.cursorBlinkSpeed, o.responsiveBreakpoint, o.maxWordLength>>

\* C16: a mode evaluation leaves currentIndex, charIndex, isDeleting, isRunning and
\* the rendered text unchanged and neither sets nor cancels a tick; it changes
\* only the active list, the cached original, the three timing values and the height.
C16_EvaluationFrame ==
    [][ lastOp'.op = "later" =>
          /\ UNCHANGED <<currentIndex, charIndex, isDeleting, isRunning, textContent,
                         animationId, classList, srText, textElement, cursorElement,
                         resizeHandler, listeners, innerWidth, timeout, faulted>>
          /\ OtherTimers(timers') = OtherTimers(timers)
          /\ NonTiming(options') = NonTiming(options)
      ]_vars

\* C16 witness: a mode evaluation swapped the list of a running widget in the
\* middle of a word, with its tick still pending
C16_Witness ==
    /\ textElement /\ cursorElement
    /\ lastOp = [op |-> "later", wasRunning |-> TRUE]
    /\ isRunning
    /\ charIndex >= 2
    /\ words # parsedWords
    /\ textContent = Substring(parsedWords[currentIndex + 1], 0, charIndex)
    /\ textContent # Substring(words[currentIndex + 1], 0, charIndex)
    /\ TickTimers # {}

\* this step fired a pending tick whose delay is in D and set one new timer
FiredTickWithDelay(D) ==
    \E i \in 1..Len(timers) :
        /\ timers[i].kind = "tick"
        /\ timers[i].delay \in D
        /\ timers' # <<>>
        /\ RemoveAt(timers', Len(timers')) = RemoveAt(timers, i)

\* the pause durations the two timing modes and the overrides configure
PauseDurations == {500, 1500, 2000}

\* the continuation set by the tick that typed a word's last character is
\* still pending
PausePending ==
    \E i \in TickTimers : timers[i].delay \in PauseDurations

\* C17 (its first half): on a widget constructed with its sub-elements and a
\* non-empty list, while the pauseDuration continuation set by the tick that
\* typed the last character of a word is pending, a timer-fired tick that
\* deletes is the firing of such a continuation: no delete happens earlier.
C17_NoDeleteBeforePause ==
    [][ (Animated /\ TickStep /\ isRunning /\ isDeleting /\ PausePending) =>
            FiredTickWithDelay(PauseDurations) ]_vars


\* the current word as each of the two modes lists it
WordInEitherMode ==
    { parsedWords[currentIndex + 1],
      TruncatedOnce(parsedWords, options.maxWordLength)[currentIndex + 1] }

\* typing, with charIndex at or past the end of the word in both modes: the
\* test charIndex === currentWord.length is made after the increment, so no
\* later tick can pass it
TypingPastEnd ==
    /\ Animated
    /\ ~isDeleting
    /\ \A w \in WordInEitherMode : charIndex >= Len(w)

\* C18: on a running widget constructed with its sub-elements and a non-empty
\* list, the typing phase can still end: in one of the two modes the word has
\* a character at charIndex left to type, so that a later tick can reach
\* charIndex = length, start the deletion and move on to the next word.
C18_TypingCanEnd ==
    (Animated /\ isRunning) => ~TypingPastEnd

\* once typing is past the end of the word in both modes it stays so, whatever
\* ticks, resizes and calls follow: the widget never deletes nor advances again
TypingPastEndForGood ==
    [][ TypingPastEnd => TypingPastEnd' ]_vars


\* C19: on a widget constructed with its sub-elements and a non-empty list,
\* once destroy() has returned no evaluation of the mode changes the active
\* word list, the cached original list, the timing values or the container
\* height.
C19_NoEvaluationAfterDestroy ==
    [][ (Animated /\ destroyed /\ lastOp'.op = "later") =>
            UNCHANGED <<words, originalWords, options, height>> ]_vars


\* C20: with a non-empty word list, charIndex is never negative, currentIndex
\* is below the number of words, and while deleting charIndex is at least 1,
\* so the deleting branch never renders a prefix of negative length.
C20_IndicesInRange ==
    words # <<>> =>
        /\ charIndex >= 0
        /\ currentIndex >= 0 /\ currentIndex < Len(words)
        /\ isDeleting => charIndex >= 1

\* a deletion in progress on a fully built widget, with two tick chains
\* pending, right after an evaluation swapped the word under the rendered text
C20_Witness ==
    /\ Animated
    /\ isDeleting
    /\ charIndex >= 1
    /\ Cardinality(TickTimers) = 2
    /\ lastOp.op = "later"
    /\ textContent # Substring(CurrentWord(State), 0, charIndex)

====
